---- MODULE Spec2Model ----
(***************************************************************************)
(* A model of app.py: the track-fitting verification service.              *)
(*                                                                         *)
(* Text is modelled as sequences of one-character strings, so that         *)
(* lowercasing, substring search and str() are computed rather than        *)
(* assumed.  Python's None, where it can stand in a text position, is the  *)
(* one-element sequence None, which no text equals.                        *)
(***************************************************************************)
EXTENDS Integers, Sequences, FiniteSets, TLC

VARIABLES
    call,           \* a direct call of a helper: [fn, arg, ret, done]
    pc,             \* where the process is: boot, idle, or a step of the request in hand
    initOutcome,    \* which way init_firestore ended
    apps,           \* firebase_admin._apps is non-empty
    db_fs,          \* the global store handle: "None" or "client"
    store,          \* the documents of FIRESTORE_COLLECTION, in the order written
    nreq,           \* requests received so far
    req,            \* the request in hand
    predicted,      \* what model.predict returned: [names, boxes] (local to run_pt_inference)
    det,            \* run_pt_inference's return value: <<>> (None) or <<match>>
    result_json,    \* the handler's result_json dict
    doc_id,         \* save_result_to_firestore's return value
    storeOutcome,   \* how the store answered this request's write
    response,       \* the HTTP response of the request in hand
    events          \* the external calls of the request in hand, in order

vars == <<call, pc, initOutcome, apps, db_fs, store, nreq, req, predicted, det,
          result_json, doc_id, storeOutcome, response, events>>

(***************************************************************************)
(* Bounds of the model.                                                    *)
(***************************************************************************)
MaxParts == 2       \* tokens a label handed to parse_component is made of
MaxBoxes == 2       \* detections in one call of the selector
MaxConf == 2        \* confidences are k / MaxConf, k in 0..MaxConf
MaxDet == 2         \* detections per request in the request pipeline
MaxRequests == 1    \* requests the service receives

(***************************************************************************)
(* Text.                                                                   *)
(***************************************************************************)
None == <<"None">>

LowerChar(c) ==
    CASE c = "A" -> "a" [] c = "B" -> "b" [] c = "C" -> "c" [] c = "D" -> "d"
      [] c = "E" -> "e" [] c = "F" -> "f" [] c = "G" -> "g" [] c = "H" -> "h"
      [] c = "I" -> "i" [] c = "J" -> "j" [] c = "K" -> "k" [] c = "L" -> "l"
      [] c = "M" -> "m" [] c = "N" -> "n" [] c = "O" -> "o" [] c = "P" -> "p"
      [] c = "Q" -> "q" [] c = "R" -> "r" [] c = "S" -> "s" [] c = "T" -> "t"
      [] c = "U" -> "u" [] c = "V" -> "v" [] c = "W" -> "w" [] c = "X" -> "x"
      [] c = "Y" -> "y" [] c = "Z" -> "z" [] OTHER -> c

\* str.lower()
Lower(s) == [i \in 1..Len(s) |-> LowerChar(s[i])]

\* Python's  w in s  on strings
IsSubstring(w, s) ==
    \E i \in 0..(Len(s) - Len(w)) : SubSeq(s, i + 1, i + Len(w)) = w

Digit(d) == <<ToString(d)>>

RECURSIVE StrNat(_)
StrNat(n) == IF n < 10 THEN Digit(n) ELSE StrNat(n \div 10) \o Digit(n % 10)

\* str(cls_id)
Str(n) == IF n < 0 THEN <<"-">> \o StrNat(0 - n) ELSE StrNat(n)

(***************************************************************************)
(* The component vocabulary and the static label table.                    *)
(***************************************************************************)
erc == <<"e", "r", "c">>
liner == <<"l", "i", "n", "e", "r">>
sleeper == <<"s", "l", "e", "e", "p", "e", "r">>
clip == <<"c", "l", "i", "p">>
pad == <<"p", "a", "d">>
bolt == <<"b", "o", "l", "t">>

\* the list parse_component scans, in its order
COMPONENTS == <<erc, liner, sleeper, clip, pad, bolt>>

\* the list with clip moved to the front
COMPONENTS_clip_first == <<clip, erc, liner, sleeper, pad, bolt>>

ok_ == <<"_", "o", "k">>
faulty_ == <<"_", "f", "a", "u", "l", "t", "y">>
rust_ == <<"_", "r", "u", "s", "t">>
missing_ == <<"_", "m", "i", "s", "s", "i", "n", "g">>
qr_code == <<"q", "r", "_", "c", "o", "d", "e">>

CLASS_NAMES ==
    << clip \o ok_, liner \o ok_, pad \o ok_, sleeper \o ok_, bolt \o ok_, erc \o ok_,
       clip \o faulty_, liner \o faulty_, pad \o faulty_, sleeper \o faulty_,
       bolt \o faulty_, erc \o faulty_,
       clip \o rust_, liner \o rust_, pad \o rust_, sleeper \o rust_, bolt \o rust_,
       erc \o rust_,
       clip \o missing_, liner \o missing_, pad \o missing_, sleeper \o missing_,
       bolt \o missing_, erc \o missing_,
       qr_code >>

(***************************************************************************)
(* parse_component                                                         *)
(***************************************************************************)
\* Python's  x or y  on a text that may be None or empty
Or(x, y) == IF x = None \/ x = <<>> THEN y ELSE x

RECURSIVE ScanComponents(_, _, _)
ScanComponents(comps, name, i) ==
    IF i > Len(comps) THEN None
    ELSE IF IsSubstring(comps[i], name) THEN comps[i]
    ELSE ScanComponents(comps, name, i + 1)

\* parse_component scanning clip before erc
parse_component_clip_first(class_name) ==
    ScanComponents(COMPONENTS_clip_first, Lower(Or(class_name, <<>>)), 1)

parse_component(class_name) ==
    ScanComponents(COMPONENTS, Lower(Or(class_name, <<>>)), 1)

(***************************************************************************)
(* run_pt_inference: the loop over r.boxes.                                *)
(* names is r.names as a function from class ids to labels; a result with  *)
(* no usable label map is the function with the empty domain.  A box is    *)
(* [cls, conf]: int(b.cls) and float(b.conf), the confidence in units of   *)
(* 1 / MaxConf.                                                            *)
(***************************************************************************)
NoMatch == <<>>

\* a Python list subscript: negative subscripts count from the end, and a
\* subscript outside -len .. len-1 raises IndexError
PyIndex(list, i) ==
    IF 0 <= i /\ i < Len(list) THEN [raised |-> FALSE, value |-> list[i + 1]]
    ELSE IF i < 0 /\ 0 - i <= Len(list)
        THEN [raised |-> FALSE, value |-> list[Len(list) + i + 1]]
    ELSE [raised |-> TRUE, value |-> None]

\* the label of a box: r.names first, then CLASS_NAMES, then str(cls_id)
ResolveLabel(names, cls_id) ==
    IF cls_id \in DOMAIN names THEN [raised |-> FALSE, value |-> names[cls_id]]
    ELSE IF cls_id < Len(CLASS_NAMES) THEN PyIndex(CLASS_NAMES, cls_id)
    ELSE [raised |-> FALSE, value |-> Str(cls_id)]

\* conf >= best_conf: the last of the tied detections would win
Better_or_equal(conf, best_conf) == conf >= best_conf

\* conf > best_conf
Better(conf, best_conf) == conf > best_conf

\* best_conf = -1.0, in units of 1 / MaxConf
InitialBestConf == 0 - MaxConf

RECURSIVE BoxLoop(_, _, _, _, _)
BoxLoop(names, boxes, i, best, best_conf) ==
    IF i > Len(boxes) THEN [raised |-> FALSE, best |-> best]
    ELSE
        LET conf == boxes[i].conf
            label == ResolveLabel(names, boxes[i].cls)
        IN  IF label.raised THEN [raised |-> TRUE, best |-> NoMatch]
            ELSE
                LET class_name == label.value
                    comp == parse_component(class_name)
                IN  IF comp = None THEN BoxLoop(names, boxes, i + 1, best, best_conf)
                    ELSE IF Better(conf, best_conf)
                        THEN BoxLoop(names, boxes, i + 1,
                                     << [component |-> comp, confidence |-> conf,
                                         class_name |-> class_name] >>,
                                     conf)
                    ELSE BoxLoop(names, boxes, i + 1, best, best_conf)

\* returns [raised, best]: best is NoMatch (None) or a one-element sequence
\* holding the match
run_pt_inference(names, boxes) ==
    IF Len(boxes) = 0 THEN [raised |-> FALSE, best |-> NoMatch]
    ELSE BoxLoop(names, boxes, 1, NoMatch, InitialBestConf)

(***************************************************************************)
(* Direct calls of the two helpers, on inputs drawn from bounded sets.     *)
(***************************************************************************)
Tokens ==
    { erc, <<"E", "R", "C">>, <<"L", "i", "n", "e", "r">>, sleeper, clip, pad, bolt,
      qr_code, <<"e", "r">>, <<"c">>, <<"_", "O", "K">>, <<"2", "5">> }

RECURSIVE Concats(_)
Concats(n) ==
    IF n = 0 THEN {<<>>}
    ELSE LET S == Concats(n - 1) IN S \cup {s \o t : s \in S, t \in Tokens}

\* the labels parse_component is called on: None, "", and the texts made of
\* at most MaxParts tokens
MatcherLabels == Concats(MaxParts) \cup {None}

NoNames == <<>>

\* a label map of the model that disagrees with CLASS_NAMES at 0 and knows
\* a class past the end of it
ModelNames ==
    (0 :> <<"B", "o", "l", "t", "_", "R", "u", "s", "t">>)
        @@ (Len(CLASS_NAMES) - 1 :> qr_code)
        @@ (Len(CLASS_NAMES) :> pad \o ok_)

\* the label map of a model trained on exactly CLASS_NAMES
FullNames == [c \in 0..(Len(CLASS_NAMES) - 1) |-> CLASS_NAMES[c + 1]]

SelectorNames == {NoNames, ModelNames, FullNames}

\* class ids a detector emits are indices of its classes: never negative
SelectorClasses == {0, 5, 16, 24, 25, 26}

BoxLists(classes, confs, n) ==
    UNION {[1..k -> [cls : classes, conf : confs]] : k \in 0..n}

\* every class id around the static table, negative ones included
ResolveClasses == (0 - Len(CLASS_NAMES) - 2)..(Len(CLASS_NAMES) + 2)

NoRequest ==
    [endpoint |-> "", method |-> "", image |-> "", callback |-> "", materialId |-> <<>>]

NoPrediction == [names |-> <<>>, boxes |-> <<>>]

NoResponse ==
    [kind |-> "none", code |-> 0, text |-> "", json |-> <<>>, location |-> "",
     query |-> <<>>]

Unset == <<"unset">>

requestVars ==
    <<req, predicted, det, result_json, doc_id, storeOutcome, response, events>>

RequestIdle ==
    /\ req = NoRequest
    /\ predicted = NoPrediction
    /\ det = NoMatch
    /\ result_json = <<>>
    /\ doc_id = Unset
    /\ storeOutcome = "none"
    /\ response = NoResponse
    /\ events = <<>>

serviceVars == <<pc, initOutcome, apps, db_fs, store, nreq>>

\* the service is not running: only a helper is called
ServiceOff ==
    /\ pc = "off"
    /\ initOutcome = "pending"
    /\ apps = FALSE
    /\ db_fs = "None"
    /\ store = <<>>
    /\ nreq = 0
    /\ RequestIdle

NoCall == [fn |-> "none", arg |-> <<>>, done |-> TRUE, ret |-> <<>>]

InitMatcher ==
    /\ call \in {[fn |-> "parse_component", arg |-> l, done |-> FALSE, ret |-> <<>>] :
                    l \in MatcherLabels}
    /\ ServiceOff

CallMatcher ==
    /\ call.fn = "parse_component"
    /\ ~call.done
    /\ call' = [call EXCEPT !.done = TRUE, !.ret = parse_component(call.arg)]
    /\ UNCHANGED <<serviceVars, requestVars>>

SpecMatcher == InitMatcher /\ [][CallMatcher]_vars

SelectorCall(names, boxes) ==
    [fn |-> "run_pt_inference", arg |-> [names |-> names, boxes |-> boxes],
     done |-> FALSE, ret |-> <<>>]

InitSelector ==
    /\ call \in {SelectorCall(n, b) :
                    n \in SelectorNames,
                    b \in BoxLists(SelectorClasses, 0..MaxConf, MaxBoxes)}
    /\ ServiceOff

\* one detection of any class id, negative ones included
InitResolve ==
    /\ call \in {SelectorCall(n, b) :
                    n \in SelectorNames,
                    b \in BoxLists(ResolveClasses, {MaxConf}, 1)}
    /\ ServiceOff

CallSelector ==
    /\ call.fn = "run_pt_inference"
    /\ ~call.done
    /\ call' = [call EXCEPT !.done = TRUE,
                            !.ret = run_pt_inference(call.arg.names, call.arg.boxes)]
    /\ UNCHANGED <<serviceVars, requestVars>>

SpecSelector == InitSelector /\ [][CallSelector]_vars

SpecResolve == InitResolve /\ [][CallSelector]_vars

(***************************************************************************)
(* Properties of the helpers.                                              *)
(***************************************************************************)
UpperLetters ==
    << "A", "B", "C", "D", "E", "F", "G", "H", "I", "J", "K", "L", "M",
       "N", "O", "P", "Q", "R", "S", "T", "U", "V", "W", "X", "Y", "Z" >>

LowerLetters ==
    << "a", "b", "c", "d", "e", "f", "g", "h", "i", "j", "k", "l", "m",
       "n", "o", "p", "q", "r", "s", "t", "u", "v", "w", "x", "y", "z" >>

\* a and b are the same character up to case
SameLetter(a, b) ==
    \/ a = b
    \/ \E k \in 1..Len(UpperLetters) : {a, b} = {UpperLetters[k], LowerLetters[k]}

\* w occurs in s, case ignored
ContainsCI(w, s) ==
    \E i \in 0..(Len(s) - Len(w)) : \A k \in 1..Len(w) : SameLetter(s[i + k], w[k])

Minimum(S) == CHOOSE x \in S : \A y \in S : x <= y

Maximum(S) == CHOOSE x \in S : \A y \in S : x >= y

\* the positions in COMPONENTS of the components a label contains
Hits(label) ==
    {i \in 1..Len(COMPONENTS) :
        ContainsCI(COMPONENTS[i], IF label = None THEN <<>> ELSE label)}

\* C4: parse_component returns, case-insensitively, the first entry of
\* [erc, liner, sleeper, clip, pad, bolt] that occurs in the label; a label
\* holding exactly one of the six yields it; qr_code, the empty and the absent
\* label and every label holding none of them yield None.
C4_FirstComponentInOrder ==
    (call.fn = "parse_component" /\ call.done) =>
        LET h == Hits(call.arg)
        IN  /\ call.ret = IF h = {} THEN None ELSE COMPONENTS[Minimum(h)]
            /\ \A i \in 1..Len(COMPONENTS) : h = {i} => call.ret = COMPONENTS[i]
            /\ call.arg \in {qr_code, <<>>, None} => call.ret = None

\* a mixed-case label holding erc and another component was matched to erc
C4_Witness ==
    /\ call.fn = "parse_component"
    /\ call.done
    /\ call.arg # None
    /\ call.arg # Lower(call.arg)
    /\ Cardinality(Hits(call.arg)) >= 2
    /\ 4 \in Hits(call.arg)
    /\ call.ret = erc

SelNames == call.arg.names

SelBoxes == call.arg.boxes

\* the label the loop resolves for box i
LabelAt(names, boxes, i) == ResolveLabel(names, boxes[i].cls).value

\* the boxes with a resolvable component
Resolvable(names, boxes) ==
    {i \in 1..Len(boxes) : parse_component(LabelAt(names, boxes, i)) # None}

\* the first box, in list order, among the resolvable ones of greatest confidence
FirstBest(names, boxes) ==
    LET R == Resolvable(names, boxes)
        m == Maximum({boxes[i].conf : i \in R})
    IN  Minimum({i \in R : boxes[i].conf = m})

\* C2: the selector returns a match whose confidence is the maximum over the
\* detections with a resolvable component, and whose component and label are
\* those of the first such detection of that confidence in list order; with no
\* resolvable detection it returns None.
C2_MaxConfidenceFirstOnTies ==
    (call.fn = "run_pt_inference" /\ call.done) =>
        /\ ~call.ret.raised
        /\ IF Resolvable(SelNames, SelBoxes) = {} THEN call.ret.best = NoMatch
           ELSE LET f == FirstBest(SelNames, SelBoxes)
                IN  /\ Len(call.ret.best) = 1
                    /\ call.ret.best[1].confidence =
                           Maximum({SelBoxes[i].conf : i \in Resolvable(SelNames, SelBoxes)})
                    /\ call.ret.best[1].component =
                           parse_component(LabelAt(SelNames, SelBoxes, f))
                    /\ call.ret.best[1].class_name = LabelAt(SelNames, SelBoxes, f)

\* two detections of different components tie at the greatest confidence and
\* the first one was returned
C2_Witness ==
    /\ call.fn = "run_pt_inference"
    /\ call.done
    /\ Len(SelBoxes) >= 2
    /\ Resolvable(SelNames, SelBoxes) = {1, 2}
    /\ SelBoxes[1].conf = SelBoxes[2].conf
    /\ parse_component(LabelAt(SelNames, SelBoxes, 1))
           # parse_component(LabelAt(SelNames, SelBoxes, 2))
    /\ Len(call.ret.best) = 1
    /\ call.ret.best[1].component = parse_component(LabelAt(SelNames, SelBoxes, 1))

\* the label C10 states for class id c
ClaimedLabel(names, c) ==
    IF c \in DOMAIN names THEN names[c]
    ELSE IF 0 <= c /\ c < Len(CLASS_NAMES) THEN CLASS_NAMES[c + 1]
    ELSE Str(c)

\* C10: a detection of class id c is labelled by the model's label map when it
\* has c, else by CLASS_NAMES[c] when c is an index of the table, else (every c
\* out of the table's range, negative ones included) by str(c), which matches
\* no component, so that the detection is skipped.
C10_LabelPrecedence ==
    (call.fn = "run_pt_inference" /\ call.done /\ Len(SelBoxes) = 1) =>
        LET c == SelBoxes[1].cls
            label == ClaimedLabel(SelNames, c)
            comp == parse_component(label)
        IN  /\ ~call.ret.raised
            /\ call.ret.best =
                   IF comp = None THEN NoMatch
                   ELSE << [component |-> comp, confidence |-> SelBoxes[1].conf,
                            class_name |-> label] >>
            /\ (c \notin DOMAIN SelNames /\ (c < 0 \/ c >= Len(CLASS_NAMES)))
                   => call.ret.best = NoMatch

\* the same statement for the class ids that are not negative
LabelPrecedenceNonNegative ==
    (call.fn = "run_pt_inference" /\ call.done /\ Len(SelBoxes) = 1
        /\ SelBoxes[1].cls >= 0) => C10_LabelPrecedence

(***************************************************************************)
(* Configuration.                                                          *)
(***************************************************************************)
\* CONF_THRESHOLD, in hundredths
CONF_THRESHOLD == 35

\* os.path.basename(PT_MODEL_PATH)
MODEL_BASENAME == "best.pt"

SERVER_TIMESTAMP == "SERVER_TIMESTAMP"

(***************************************************************************)
(* Dicts are functions from keys to values.                                *)
(***************************************************************************)
\* d[k] = v
SetItem(d, k, v) == [x \in (DOMAIN d) \cup {k} |-> IF x = k THEN v ELSE d[x]]

(***************************************************************************)
(* init_firestore.  answer is what the environment does: the key file is   *)
(* missing, credentials.Certificate raises, initialize_app raises,         *)
(* firestore.client raises, or all of them succeed.                        *)
(***************************************************************************)
InitAnswers ==
    {"key_missing", "certificate_raises", "initialize_app_raises", "client_raises", "ok"}

\* init_firestore with db_fs bound before firestore.client() has answered
init_firestore_early_handle(answer, has_apps) ==
    IF answer = "key_missing" THEN [db_fs |-> "None", apps |-> has_apps]
    ELSE IF ~has_apps /\ answer \in {"certificate_raises", "initialize_app_raises"}
        THEN [db_fs |-> "None", apps |-> has_apps]
    ELSE [db_fs |-> "client", apps |-> TRUE]

\* returns the globals it leaves: db_fs and firebase_admin._apps
init_firestore(answer, has_apps) ==
    IF answer = "key_missing" THEN [db_fs |-> "None", apps |-> has_apps]
    ELSE IF ~has_apps /\ answer \in {"certificate_raises", "initialize_app_raises"}
        THEN [db_fs |-> "None", apps |-> has_apps]
    ELSE IF answer = "client_raises" THEN [db_fs |-> "None", apps |-> TRUE]
    ELSE [db_fs |-> "client", apps |-> TRUE]

(***************************************************************************)
(* save_result_to_firestore.  answer is what the store does with this      *)
(* write: document() raises, set() raises, or the write succeeds; new_id   *)
(* is the identifier document() generates.  Nothing in the function        *)
(* catches: an exception of the store leaves it (raised).                  *)
(***************************************************************************)
StoreAnswers == {"ok", "document_raises", "set_raises"}

\* doc as it stands before the document reference is created
ProvenancedDoc(result, material_id, source) ==
    LET d1 == SetItem(result, "materialId", Or(material_id, None))
        d2 == SetItem(d1, "source", Or(source, None))
        d3 == SetItem(d2, "threshold", CONF_THRESHOLD)
        d4 == SetItem(d3, "model", MODEL_BASENAME)
    IN  SetItem(d4, "createdAt", SERVER_TIMESTAMP)

\* save_result_to_firestore setting the document again when set() raises
save_result_to_firestore_retrying(db, result, material_id, source, answer, new_id) ==
    IF db = "None"
        THEN [raised |-> FALSE, ret |-> None, written |-> <<>>, calls |-> <<>>,
              result_json |-> result]
    ELSE
        LET doc == SetItem(ProvenancedDoc(result, material_id, source), "id", new_id)
        IN  IF answer = "ok"
                THEN [raised |-> FALSE, ret |-> new_id, written |-> <<doc>>,
                      calls |-> <<"store_document", "store_set">>, result_json |-> result]
            ELSE [raised |-> FALSE, ret |-> new_id, written |-> <<doc>>,
                  calls |-> <<"store_document", "store_set", "store_set">>,
                  result_json |-> result]

\* doc = result_json in place of doc = dict(result_json)
save_result_to_firestore_aliasing(db, result, material_id, source, answer, new_id) ==
    IF db = "None"
        THEN [raised |-> FALSE, ret |-> None, written |-> <<>>, calls |-> <<>>,
              result_json |-> result]
    ELSE
        LET doc == ProvenancedDoc(result, material_id, source)
        IN  IF answer = "document_raises"
                THEN [raised |-> TRUE, ret |-> None, written |-> <<>>,
                      calls |-> <<"store_document">>, result_json |-> doc]
            ELSE IF answer = "set_raises"
                THEN [raised |-> TRUE, ret |-> None, written |-> <<>>,
                      calls |-> <<"store_document", "store_set">>,
                      result_json |-> SetItem(doc, "id", new_id)]
            ELSE [raised |-> FALSE, ret |-> new_id,
                  written |-> <<SetItem(doc, "id", new_id)>>,
                  calls |-> <<"store_document", "store_set">>,
                  result_json |-> SetItem(doc, "id", new_id)]

\* returns [raised, ret, written, calls, result_json]: the documents set in
\* the collection, the calls made on the store, and the caller's dict as the
\* function leaves it
save_result_to_firestore(db, result, material_id, source, answer, new_id) ==
    IF db = "None"
        THEN [raised |-> FALSE, ret |-> None, written |-> <<>>, calls |-> <<>>,
              result_json |-> result]
    ELSE
        LET doc == ProvenancedDoc(result, material_id, source)
        IN  IF answer = "document_raises"
                THEN [raised |-> TRUE, ret |-> None, written |-> <<>>,
                      calls |-> <<"store_document">>, result_json |-> result]
            ELSE IF answer = "set_raises"
                THEN [raised |-> TRUE, ret |-> None, written |-> <<>>,
                      calls |-> <<"store_document", "store_set">>,
                      result_json |-> result]
            ELSE [raised |-> FALSE, ret |-> new_id,
                  written |-> <<SetItem(doc, "id", new_id)>>,
                  calls |-> <<"store_document", "store_set">>, result_json |-> result]

(***************************************************************************)
(* The result dict both handlers build from run_pt_inference's return.     *)
(***************************************************************************)
\* the builder with "" for the component of a request with no detection
BuildResult_zero_component(d) ==
    IF d = NoMatch
        THEN [ok |-> TRUE, status |-> "not_detected", component |-> <<>>, confidence |-> 0]
    ELSE [ok |-> TRUE, status |-> "verified", component |-> d[1].component,
          confidence |-> d[1].confidence]

BuildResult(d) ==
    IF d = NoMatch
        THEN [ok |-> TRUE, status |-> "not_detected", component |-> None, confidence |-> 0]
    ELSE [ok |-> TRUE, status |-> "verified", component |-> d[1].component,
          confidence |-> d[1].confidence]

(***************************************************************************)
(* Responses.                                                              *)
(***************************************************************************)
TextResponse(text, code) ==
    [kind |-> "text", code |-> code, text |-> text, json |-> <<>>, location |-> "",
     query |-> <<>>]

\* jsonify(d), code
JsonResponse(d, code) ==
    [kind |-> "json", code |-> code, text |-> "", json |-> d, location |-> "",
     query |-> <<>>]

\* redirect(f"{callback}?{q}")
RedirectResponse(callback, q) ==
    [kind |-> "redirect", code |-> 302, text |-> "", json |-> <<>>,
     location |-> callback, query |-> q]

\* what the framework answers when the handler raises
ServerError ==
    [kind |-> "error", code |-> 500, text |-> "", json |-> <<>>, location |-> "",
     query |-> <<>>]

RECURSIVE Zeros(_)
Zeros(n) == IF n <= 0 THEN <<>> ELSE <<"0">> \o Zeros(n - 1)

\* f'{conf:.6f}' of the confidence k / MaxConf
Format6(k) ==
    LET millionths == (2 * k * 1000000 + MaxConf) \div (2 * MaxConf)
        frac == StrNat(millionths % 1000000)
    IN  StrNat(millionths \div 1000000) \o <<".">> \o Zeros(6 - Len(frac)) \o frac

\* urllib's quote_plus on the characters the model's texts are made of
QuotePlus(s) == [i \in 1..Len(s) |-> IF s[i] = " " THEN "+" ELSE s[i]]

\* urlencode of a dict given as its items in insertion order: the key=value
\* pairs of the query string, in that order
urlencode(items) == [i \in 1..Len(items) |-> [k |-> items[i].k, v |-> QuotePlus(items[i].v)]]

status_text(status) ==
    IF status = "verified" THEN <<"v", "e", "r", "i", "f", "i", "e", "d">>
    ELSE <<"n", "o", "t", "_", "d", "e", "t", "e", "c", "t", "e", "d">>

verify_web_source == <<"v", "e", "r", "i", "f", "y", "_", "w", "e", "b">>

api_verify_source == <<"a", "p", "i", "_", "v", "e", "r", "i", "f", "y">>

(***************************************************************************)
(* verify_web                                                              *)
(***************************************************************************)
\* the checks before inference: the file, then the decoding
verify_web_intake(r) ==
    IF r.image = "missing"
        THEN [reject |-> TRUE, response |-> TextResponse("No image", 400)]
    ELSE IF r.image = "undecodable"
        THEN [reject |-> TRUE, response |-> TextResponse("Failed to decode image", 400)]
    ELSE [reject |-> FALSE, response |-> NoResponse]

\* the end of the handler: the redirect or the JSON; returns the response and
\* result_json as the handler leaves it
verify_web_respond(callback, material_id, result, did) ==
    IF callback # ""
        THEN [response |->
                  RedirectResponse(callback,
                      urlencode(<< [k |-> "id", v |-> material_id],
                                   [k |-> "aiStatus", v |-> status_text(result["status"])],
                                   [k |-> "aiComponent", v |-> Or(result["component"], <<>>)],
                                   [k |-> "aiConfidence", v |-> Format6(result["confidence"])],
                                   [k |-> "aiDocId", v |-> Or(did, <<>>)] >>)),
              result_json |-> result]
    ELSE LET with_id == SetItem(result, "docId", did)
         IN  [response |-> JsonResponse(with_id, 200), result_json |-> with_id]

(***************************************************************************)
(* api_verify                                                              *)
(***************************************************************************)
\* api_verify answering its client errors as verify_web does
api_verify_intake_plain_text(r) ==
    IF r.method = "OPTIONS" THEN [reject |-> TRUE, response |-> TextResponse("", 204)]
    ELSE verify_web_intake(r)

api_verify_intake(r) ==
    IF r.method = "OPTIONS" THEN [reject |-> TRUE, response |-> TextResponse("", 204)]
    ELSE IF r.image = "missing"
        THEN [reject |-> TRUE,
              response |-> JsonResponse([ok |-> FALSE, error |-> "image is required"], 400)]
    ELSE IF r.image = "undecodable"
        THEN [reject |-> TRUE,
              response |->
                  JsonResponse([ok |-> FALSE, error |-> "failed to decode image"], 400)]
    ELSE [reject |-> FALSE, response |-> NoResponse]

api_verify_respond(result, did) ==
    LET with_id == SetItem(result, "docId", did)
    IN  [response |-> JsonResponse(with_id, 200), result_json |-> with_id]

(***************************************************************************)
(* The service: start-up, then requests, one at a time.  The handlers      *)
(* share nothing but db_fs, which no handler writes, and the store.        *)
(***************************************************************************)
MaterialIds == {<<>>, <<"M", " ", "1">>}

Callbacks == {"", "https://app.example/cb"}

\* the image field: absent (or falsy), bytes for which cv2.imdecode returns None,
\* or bytes it decodes
Images == {"missing", "undecodable", "ok"}

Requests ==
    {[endpoint |-> "verify_web", method |-> "POST", image |-> i, callback |-> c,
      materialId |-> m] : i \in Images, c \in Callbacks, m \in MaterialIds}
    \cup {[endpoint |-> "api_verify", method |-> "POST", image |-> i, callback |-> "",
           materialId |-> m] : i \in Images, m \in MaterialIds}
    \cup {[endpoint |-> "api_verify", method |-> "OPTIONS", image |-> "missing",
           callback |-> "", materialId |-> <<>>]}

\* model.predict(conf=CONF_THRESHOLD) returns no box below the threshold
PredictConfs == {k \in 0..MaxConf : k * 100 >= CONF_THRESHOLD * MaxConf}

\* clip_ok, bolt_rust, qr_code
PipelineClasses == {0, 16, 24}

PredictOutputs ==
    {[names |-> n, boxes |-> b] :
        n \in {NoNames, ModelNames},
        b \in BoxLists(PipelineClasses, PredictConfs, MaxDet)}

Init ==
    /\ call = NoCall
    /\ pc = "boot"
    /\ initOutcome = "pending"
    /\ apps = FALSE
    /\ db_fs = "None"
    /\ store = <<>>
    /\ nreq = 0
    /\ RequestIdle

\* lines 66-69: the process does not start without the model file
LoadModel ==
    /\ pc = "boot"
    /\ \E exists \in BOOLEAN : pc' = IF exists THEN "loaded" ELSE "crashed"
    /\ UNCHANGED <<call, initOutcome, apps, db_fs, store, nreq, requestVars>>

\* line 110: init_firestore()
InitFirestore ==
    /\ pc = "loaded"
    /\ \E answer \in InitAnswers :
          LET g == init_firestore(answer, apps)
          IN  /\ db_fs' = g.db_fs
              /\ apps' = g.apps
              /\ initOutcome' = answer
    /\ pc' = "idle"
    /\ UNCHANGED <<call, store, nreq, requestVars>>

Receive ==
    /\ pc = "idle"
    /\ nreq < MaxRequests
    /\ req' \in Requests
    /\ nreq' = nreq + 1
    /\ pc' = "received"
    /\ UNCHANGED <<call, initOutcome, apps, db_fs, store, predicted, det, result_json,
                   doc_id, storeOutcome, response, events>>

Intake(endpoint, intake) ==
    /\ pc = "received"
    /\ req.endpoint = endpoint
    /\ IF intake.reject
          THEN /\ response' = intake.response
               /\ events' = Append(events, "respond")
               /\ pc' = "responded"
          ELSE /\ pc' = "decoded"
               /\ UNCHANGED <<response, events>>
    /\ UNCHANGED <<call, initOutcome, apps, db_fs, store, nreq, req, predicted, det,
                   result_json, doc_id, storeOutcome>>

VerifyWebIntake == Intake("verify_web", verify_web_intake(req))

ApiVerifyIntake == Intake("api_verify", api_verify_intake(req))

\* det = run_pt_inference(img_bgr) and the result dict built from it
RunInference ==
    /\ pc = "decoded"
    /\ \E out \in PredictOutputs :
          LET r == run_pt_inference(out.names, out.boxes)
          IN  /\ predicted' = out
              /\ IF r.raised
                    THEN /\ response' = ServerError
                         /\ events' = events \o <<"predict", "respond">>
                         /\ pc' = "responded"
                         /\ UNCHANGED <<det, result_json>>
                    ELSE /\ det' = r.best
                         /\ result_json' = BuildResult(r.best)
                         /\ events' = Append(events, "predict")
                         /\ pc' = "built"
                         /\ UNCHANGED response
    /\ UNCHANGED <<call, initOutcome, apps, db_fs, store, nreq, req, doc_id, storeOutcome>>

SourceOf(endpoint) ==
    IF endpoint = "verify_web" THEN verify_web_source ELSE api_verify_source

\* the identifier document() generates: one no stored document has
NewId == <<"d">> \o Str(Len(store) + 1)

\* doc_id = save_result_to_firestore(result_json, material_id=..., source=...)
Persist ==
    /\ pc = "built"
    /\ \E answer \in (IF db_fs = "None" THEN {"ok"} ELSE StoreAnswers) :
          LET s == save_result_to_firestore(db_fs, result_json, req.materialId,
                                            SourceOf(req.endpoint), answer, NewId)
          IN  /\ store' = store \o s.written
              /\ result_json' = s.result_json
              /\ storeOutcome' = IF s.calls = <<>> THEN "skipped" ELSE answer
              /\ IF s.raised
                    THEN /\ response' = ServerError
                         /\ events' = (events \o s.calls) \o <<"respond">>
                         /\ pc' = "responded"
                         /\ UNCHANGED doc_id
                    ELSE /\ doc_id' = s.ret
                         /\ events' = events \o s.calls
                         /\ pc' = "persisted"
                         /\ UNCHANGED response
    /\ predicted' = NoPrediction
    /\ UNCHANGED <<call, initOutcome, apps, db_fs, nreq, req, det>>

Respond(endpoint, out) ==
    /\ pc = "persisted"
    /\ req.endpoint = endpoint
    /\ response' = out.response
    /\ result_json' = out.result_json
    /\ events' = Append(events, "respond")
    /\ pc' = "responded"
    /\ UNCHANGED <<call, initOutcome, apps, db_fs, store, nreq, req, predicted, det,
                   doc_id, storeOutcome>>

VerifyWebRespond ==
    Respond("verify_web", verify_web_respond(req.callback, req.materialId, result_json, doc_id))

ApiVerifyRespond == Respond("api_verify", api_verify_respond(result_json, doc_id))

\* the request is over: its locals are gone
Finish ==
    /\ pc = "responded"
    /\ pc' = "idle"
    /\ req' = NoRequest
    /\ predicted' = NoPrediction
    /\ det' = NoMatch
    /\ result_json' = <<>>
    /\ doc_id' = Unset
    /\ storeOutcome' = "none"
    /\ response' = NoResponse
    /\ events' = <<>>
    /\ UNCHANGED <<call, initOutcome, apps, db_fs, store, nreq>>

Next ==
    \/ LoadModel
    \/ InitFirestore
    \/ Receive
    \/ VerifyWebIntake
    \/ ApiVerifyIntake
    \/ RunInference
    \/ Persist
    \/ VerifyWebRespond
    \/ ApiVerifyRespond
    \/ Finish

Spec == Init /\ [][Next]_vars

(***************************************************************************)
(* Properties of the service.                                              *)
(***************************************************************************)
ResultKeys == {"ok", "status", "component", "confidence"}

ProvenanceKeys == {"materialId", "source", "threshold", "model", "createdAt"}

StoreRaised == storeOutcome \in {"document_raises", "set_raises"}

Count(e, x) == Cardinality({i \in 1..Len(e) : e[i] = x})

\* the value of parameter k in a query
QueryValue(q, k) == q[CHOOSE i \in 1..Len(q) : q[i].k = k].v

QueryKeys(q) == {q[i].k : i \in 1..Len(q)}

\* the response carries the four fields of the result built from det
CarriesResult(resp) ==
    LET result == BuildResult(det)
    IN  \/ /\ resp.kind = "json"
           /\ resp.code = 200
           /\ ResultKeys \subseteq DOMAIN resp.json
           /\ \A k \in ResultKeys : resp.json[k] = result[k]
        \/ /\ resp.kind = "redirect"
           /\ {"aiStatus", "aiComponent", "aiConfidence"} \subseteq QueryKeys(resp.query)
           /\ QueryValue(resp.query, "aiStatus") = status_text(result["status"])
           /\ QueryValue(resp.query, "aiComponent") = Or(result["component"], <<>>)

\* C1: when the image decoded, inference succeeded, the store handle is set
\* and the store write raises, the adapter returns None and the request still
\* ends with a success response carrying the result.
C1_StoreExceptionContained ==
    (pc = "responded" /\ req.method = "POST" /\ req.image = "ok" /\ db_fs = "client"
        /\ StoreRaised) =>
        /\ doc_id = None
        /\ response.kind \in {"json", "redirect"}
        /\ CarriesResult(response)

RECURSIVE KeepRecognized(_, _)
KeepRecognized(names, boxes) ==
    IF boxes = <<>> THEN <<>>
    ELSE LET rest == KeepRecognized(names, Tail(boxes))
         IN  IF parse_component(ResolveLabel(names, Head(boxes).cls).value) = None
                 THEN rest
             ELSE <<Head(boxes)>> \o rest

\* C3: the result a handler builds has ok = true and is exactly
\* {not_detected, null, 0.0} when no detection has a recognized component, and
\* exactly {verified, match.component, match.confidence} otherwise; detections
\* without a recognized component do not affect it.
C3_VerdictShape ==
    /\ pc \in {"built", "persisted"} =>
          /\ DOMAIN result_json = ResultKeys
          /\ result_json["ok"] = TRUE
    /\ pc = "built" =>
          LET R == Resolvable(predicted.names, predicted.boxes)
          IN  /\ IF R = {}
                    THEN /\ det = NoMatch
                         /\ result_json["status"] = "not_detected"
                         /\ result_json["component"] = None
                         /\ result_json["confidence"] = 0
                    ELSE /\ Len(det) = 1
                         /\ result_json["status"] = "verified"
                         /\ result_json["component"] = det[1].component
                         /\ result_json["confidence"] = det[1].confidence
                         /\ \E i \in R :
                               /\ predicted.boxes[i].conf = result_json["confidence"]
                               /\ parse_component(LabelAt(predicted.names, predicted.boxes, i))
                                      = result_json["component"]
              /\ LET kept == run_pt_inference(predicted.names,
                                 KeepRecognized(predicted.names, predicted.boxes)).best
                 IN  /\ result_json["status"]
                            = IF kept = NoMatch THEN "not_detected" ELSE "verified"
                     /\ kept # NoMatch =>
                            /\ result_json["component"] = kept[1].component
                            /\ result_json["confidence"] = kept[1].confidence

\* a qr_code detection of greater confidence than the one recognized detection
\* left the result to the recognized one
C3_Witness ==
    /\ pc = "built"
    /\ Len(predicted.boxes) = 2
    /\ Resolvable(predicted.names, predicted.boxes) = {1}
    /\ LabelAt(predicted.names, predicted.boxes, 2) = qr_code
    /\ predicted.boxes[2].conf > predicted.boxes[1].conf
    /\ result_json["status"] = "verified"
    /\ result_json["confidence"] = predicted.boxes[1].conf

\* C5 as stated: a written document holds the fields of the result unchanged,
\* plus exactly the five provenance fields and no other field, and the result
\* passed in is not modified.
C5_ExactlyFiveProvenanceFields ==
    [][(pc = "built" /\ pc' = "persisted" /\ storeOutcome' = "ok") =>
          LET doc == store'[Len(store')]
          IN  /\ Len(store') = Len(store) + 1
              /\ DOMAIN doc = (DOMAIN result_json) \cup ProvenanceKeys
              /\ \A k \in DOMAIN result_json : doc[k] = result_json[k]
              /\ result_json' = result_json]_vars

\* C5 as amended: a written document holds the fields of the result
\* unchanged, plus the five provenance fields and the id field, which is the
\* identifier returned, and no other field; the result passed in is not
\* modified.
C5_FiveProvenanceFieldsAndId ==
    [][(pc = "built" /\ pc' = "persisted" /\ storeOutcome' = "ok") =>
          LET doc == store'[Len(store')]
          IN  /\ Len(store') = Len(store) + 1
              /\ DOMAIN doc = ((DOMAIN result_json) \cup ProvenanceKeys) \cup {"id"}
              /\ \A k \in DOMAIN result_json : doc[k] = result_json[k]
              /\ doc["id"] = doc_id'
              /\ result_json' = result_json]_vars

\* a verified result was written for a request without a material id
C5_Witness ==
    /\ pc = "persisted"
    /\ storeOutcome = "ok"
    /\ Len(store) >= 1
    /\ store[Len(store)]["id"] = doc_id
    /\ store[Len(store)]["status"] = "verified"
    /\ store[Len(store)]["materialId"] = None
    /\ req.materialId = <<>>

Rejected == req.method = "POST" /\ req.image \in {"missing", "undecodable"}

\* C6 as stated: on both endpoints a request without an image, or with an
\* undecodable one, ends in a client error whose body carries ok = false and
\* an error message.
C6_ClientErrorCarriesOkFalse ==
    (pc = "responded" /\ Rejected) =>
        /\ response.code = 400
        /\ response.kind = "json"
        /\ {"ok", "error"} \subseteq DOMAIN response.json
        /\ response.json["ok"] = FALSE

\* C6 as amended: such a request ends in a 400 response with an error
\* message; on /api/verify the body is the JSON {ok: false, error: message},
\* on /api/verify_web it is the message as plain text, with no ok flag.
C6_ClientErrorPerEndpoint ==
    (pc = "responded" /\ Rejected) =>
        /\ response.code = 400
        /\ req.endpoint = "api_verify" =>
              /\ response.kind = "json"
              /\ response.json =
                     [ok |-> FALSE,
                      error |-> IF req.image = "missing" THEN "image is required"
                                ELSE "failed to decode image"]
        /\ req.endpoint = "verify_web" =>
              /\ response.kind = "text"
              /\ response.json = <<>>
              /\ response.text = IF req.image = "missing" THEN "No image"
                                 ELSE "Failed to decode image"

\* /api/verify_web answered an undecodable image in plain text
C6_Witness ==
    /\ pc = "responded"
    /\ req.endpoint = "verify_web"
    /\ req.image = "undecodable"
    /\ response.kind = "text"
    /\ response.code = 400

StoreEvents == {"store_document", "store_set"}

\* C7: in a request the model is invoked at most once and the store written
\* at most once, the store write comes after inference and before the
\* response, and a request rejected for its image invokes neither.
C7_AtMostOnceInOrder ==
    /\ Count(events, "predict") <= 1
    /\ Count(events, "store_document") <= 1
    /\ Count(events, "store_set") <= 1
    /\ Count(events, "respond") <= 1
    /\ \A i \in 1..Len(events) :
          events[i] \in StoreEvents =>
              /\ \E j \in 1..(i - 1) : events[j] = "predict"
              /\ \A j \in 1..i : events[j] # "respond"
    /\ \A i \in 1..Len(events) : events[i] = "respond" => i = Len(events)
    /\ (Rejected /\ pc # "received") => events = <<"respond">>
    /\ pc = "responded" => Count(events, "respond") = 1

\* a request went through inference, one store write and the response
C7_Witness ==
    /\ pc = "responded"
    /\ events = <<"predict", "store_document", "store_set", "respond">>
    /\ Len(store) >= 1

InitFailed ==
    initOutcome \in {"key_missing", "certificate_raises", "initialize_app_raises",
                     "client_raises"}

\* C8: when store initialization is skipped or fails, start-up completes, the
\* handle stays unset, and every request with a decodable image writes
\* nothing, gets None from the adapter without an exception and receives the
\* full result: docId null in JSON, aiDocId empty in the redirect.
C8_NoStoreStillAnswers ==
    InitFailed =>
        /\ pc \notin {"boot", "loaded", "crashed"}
        /\ db_fs = "None"
        /\ store = <<>>
        /\ \A i \in 1..Len(events) : events[i] \notin StoreEvents
        /\ storeOutcome \in {"none", "skipped"}
        /\ pc = "persisted" => doc_id = None
        /\ (pc = "responded" /\ req.method = "POST" /\ req.image = "ok") =>
              /\ doc_id = None
              /\ CarriesResult(response)
              /\ response.kind = "json" =>
                    /\ DOMAIN response.json = ResultKeys \cup {"docId"}
                    /\ response.json["docId"] = None
              /\ response.kind = "redirect" =>
                    QueryValue(response.query, "aiDocId") = <<>>

\* firestore.client() raised at start-up and a later request was answered by
\* a redirect carrying a verified result
C8_Witness ==
    /\ initOutcome = "client_raises"
    /\ apps
    /\ pc = "responded"
    /\ response.kind = "redirect"
    /\ Len(det) = 1
    /\ QueryValue(response.query, "aiDocId") = <<>>

\* the response of /api/verify_web that C9 states
RedirectOrJson ==
    IF req.callback # ""
        THEN /\ response.kind = "redirect"
             /\ response.location = req.callback
             /\ Len(response.query) = 5
             /\ QueryKeys(response.query)
                    = {"id", "aiStatus", "aiComponent", "aiConfidence", "aiDocId"}
             /\ QueryKeys(response.query) \cap (ProvenanceKeys \cup {"docId"}) = {}
             /\ QueryValue(response.query, "aiStatus")
                    = status_text(BuildResult(det)["status"])
             /\ QueryValue(response.query, "aiComponent")
                    = (IF det = NoMatch THEN <<>> ELSE det[1].component)
             /\ QueryValue(response.query, "aiDocId")
                    = (IF storeOutcome = "skipped" THEN <<>> ELSE doc_id)
        ELSE /\ response.kind = "json"
             /\ DOMAIN response.json = ResultKeys \cup {"docId"}
             /\ \A k \in ResultKeys : response.json[k] = BuildResult(det)[k]
             /\ response.json["docId"] = doc_id

\* C9: on /api/verify_web with a decodable image the response is, with a
\* callback, a redirect to it whose query has exactly id, aiStatus,
\* aiComponent, aiConfidence and aiDocId (the status, the component or "",
\* the adapter's identifier or ""), and no provenance field; without a
\* callback it is the result plus docId.
C9_RedirectOrJson ==
    (pc = "responded" /\ req.endpoint = "verify_web" /\ req.image = "ok")
        => RedirectOrJson

\* the same statement for the requests whose store write did not raise
RedirectOrJsonUnlessStoreRaised ==
    (pc = "responded" /\ req.endpoint = "verify_web" /\ req.image = "ok"
        /\ ~StoreRaised) => RedirectOrJson

====
